---------------------------- MODULE Spec2Model ----------------------------
(***************************************************************************)
(* Chipster8: a CHIP-8 interpreter.  The machine state (state/mod.rs), the *)
(* framebuffer (display/mod.rs), the instruction set (instruction/mod.rs)  *)
(* and the frame loop of main.rs.                                          *)
(*                                                                         *)
(* Integer widths are kept: u8 values live in 0..255, u16 in 0..65535.     *)
(* An arithmetic overflow panics when the build checks overflow (the debug *)
(* profile) and wraps otherwise (the release profile); an out-of-range     *)
(* index panics in every build.  A panic ends the process.                 *)
(***************************************************************************)
EXTENDS Integers, Sequences, FiniteSets, TLC

VARIABLES
    state,                \* the State of state/mod.rs, a record
    debug_build,          \* TRUE: overflow checks are compiled in
    phase,                \* position in main's loop / in the harness
    loop_i,               \* the `i` of `for i in 0..9`
    simmulation_running,  \* main.rs
    simmulation_step,     \* main.rs
    closed,               \* main.rs
    ui_left,              \* Control-window button presses still to come
    prev,                 \* history: the state before the last instruction
    last,                 \* history: the last instruction and its result
    failed,               \* history: some execute() has returned false
    calls,                \* history: CALLs not yet returned from
    frame                 \* history: instructions and ticks of this frame

vars == <<state, debug_build, phase, loop_i, simmulation_running,
          simmulation_step, closed, ui_left, prev, last, failed, calls, frame>>

----------------------------------------------------------------------------
(* Program constants *)

RAM_SIZE == 4095
STACK_SIZE == 16
DISPLAY_WIDTH == 64
DISPLAY_HEIGHT == 32
PROGRAM_START == 512
CYCLES_PER_FRAME == 9
SPRITE_BITS == 7
FONT_BYTES == 80

(* Bounds of the model *)

MaxKey == 1      \* the input collaborator presses keys 0..MaxKey
MaxUi == 2       \* Control-window button presses in one run

----------------------------------------------------------------------------
(* Bit operations on naturals *)

RECURSIVE BitAnd(_, _)
BitAnd(a, b) ==
    IF a = 0 \/ b = 0 THEN 0
    ELSE (IF a % 2 = 1 /\ b % 2 = 1 THEN 1 ELSE 0) + 2 * BitAnd(a \div 2, b \div 2)

RECURSIVE BitOr(_, _)
BitOr(a, b) ==
    IF a = 0 THEN b
    ELSE IF b = 0 THEN a
    ELSE (IF a % 2 = 1 \/ b % 2 = 1 THEN 1 ELSE 0) + 2 * BitOr(a \div 2, b \div 2)

RECURSIVE BitXor(_, _)
BitXor(a, b) ==
    IF a = 0 THEN b
    ELSE IF b = 0 THEN a
    ELSE (IF a % 2 # b % 2 THEN 1 ELSE 0) + 2 * BitXor(a \div 2, b \div 2)

RECURSIVE Pow2(_)
Pow2(n) == IF n = 0 THEN 1 ELSE 2 * Pow2(n - 1)

Shr(a, n) == a \div Pow2(n)

U8(n) == n % 256
U16(n) == n % 65536

----------------------------------------------------------------------------
(* instruction/mod.rs: the opcode fields *)

get_x(opcode) == Shr(BitAnd(opcode, \h0F00), 8)

get_y(opcode) == Shr(BitAnd(opcode, \h00F0), 4)

get_nnn(opcode) == BitAnd(opcode, \h0FFF)

get_addr(opcode) == BitAnd(opcode, \h0FFF)

get_nibble(opcode) == BitAnd(opcode, \h000F)

get_byte(opcode) == U8(BitAnd(opcode, \h00FF))

----------------------------------------------------------------------------
(* display/mod.rs *)

DisplayNew == [r \in 0..(DISPLAY_HEIGHT - 1) |-> [c \in 0..(DISPLAY_WIDTH - 1) |-> 0]]

\* sprite_row that adds the sprite bit to the cell
RECURSIVE sprite_row_add(_, _, _, _, _)
sprite_row_add(d, x, yy, byte, i) ==
    IF i >= SPRITE_BITS THEN d
    ELSE IF x + i > 255 /\ debug_build THEN [d EXCEPT !.panic = TRUE]
    ELSE LET xx == U8(x + i) % DISPLAY_WIDTH
             set == BitAnd(Shr(128, i), byte) > 0
             bit == IF set THEN 1 ELSE 0
         IN  sprite_row_add([data      |-> [d.data EXCEPT ![yy][xx] = @ + bit],
                             collision |-> IF set THEN d.collision ELSE TRUE,
                             panic     |-> FALSE],
                            x, yy, byte, i + 1)

\* sprite_row that sets the pixels of the sprite instead of toggling them
RECURSIVE sprite_row_or(_, _, _, _, _)
sprite_row_or(d, x, yy, byte, i) ==
    IF i >= SPRITE_BITS THEN d
    ELSE IF x + i > 255 /\ debug_build THEN [d EXCEPT !.panic = TRUE]
    ELSE LET xx == U8(x + i) % DISPLAY_WIDTH
             set == BitAnd(Shr(128, i), byte) > 0
             bit == IF set THEN 1 ELSE 0
         IN  sprite_row_or([data      |-> [d.data EXCEPT ![yy][xx] = BitOr(@, bit)],
                            collision |-> IF set THEN d.collision ELSE TRUE,
                            panic     |-> FALSE],
                           x, yy, byte, i + 1)

\* One sprite row: `for i in 0..7 { let x = (x + i) % 64; data[y][x] ^= ... }`.
\* d is [data, collision, panic].
RECURSIVE sprite_row(_, _, _, _, _)
sprite_row(d, x, yy, byte, i) ==
    IF i >= SPRITE_BITS THEN d
    ELSE IF x + i > 255 /\ debug_build THEN [d EXCEPT !.panic = TRUE]
    ELSE LET xx == U8(x + i) % DISPLAY_WIDTH
             set == BitAnd(Shr(128, i), byte) > 0
             bit == IF set THEN 1 ELSE 0
         IN  sprite_row([data      |-> [d.data EXCEPT ![yy][xx] = BitXor(@, bit)],
                         collision |-> IF set THEN d.collision ELSE TRUE,
                         panic     |-> FALSE],
                        x, yy, byte, i + 1)

\* `for (row, byte) in sprite.iter().enumerate() { let y = (y + row as u8) % 32; ... }`
RECURSIVE sprite_rows(_, _, _, _, _)
sprite_rows(d, x, y, sprite, row) ==
    IF d.panic \/ row > Len(sprite) THEN d
    ELSE IF y + (row - 1) > 255 /\ debug_build THEN [d EXCEPT !.panic = TRUE]
    ELSE sprite_rows(sprite_row(d, x, U8(y + (row - 1)) % DISPLAY_HEIGHT, sprite[row], 0),
                     x, y, sprite, row + 1)

\* Display::display_sprite: [data, collision, panic]
display_sprite(data, x, y, sprite) ==
    sprite_rows([data |-> data, collision |-> FALSE, panic |-> FALSE], x, y, sprite, 1)

\* reset that clears the first row only
reset_first_row(data) ==
    [r \in DOMAIN data |-> [c \in DOMAIN data[r] |-> IF r = 0 THEN 0 ELSE data[r][c]]]

\* Display::reset
reset(data) == [r \in DOMAIN data |-> [c \in DOMAIN data[r] |-> 0]]

\* Display::is_clear
is_clear(data) == \A r \in DOMAIN data : \A c \in DOMAIN data[r] : data[r][c] = 0

----------------------------------------------------------------------------
(* state/mod.rs *)

character_data ==
    << \hF0, \h90, \h90, \h90, \hF0,
       \h20, \h60, \h20, \h20, \h70,
       \hF0, \h10, \hF0, \h80, \hF0,
       \hF0, \h10, \hF0, \h10, \hF0,
       \h90, \h90, \hF0, \h10, \h10,
       \hF0, \h80, \hF0, \h10, \hF0,
       \hF0, \h80, \hF0, \h90, \hF0,
       \hF0, \h10, \h20, \h40, \h40,
       \hF0, \h90, \hF0, \h90, \hF0,
       \hF0, \h90, \hF0, \h10, \hF0,
       \hF0, \h90, \hF0, \h90, \h90,
       \hE0, \h90, \hE0, \h90, \hE0,
       \hF0, \h80, \h80, \h80, \hF0,
       \hE0, \h90, \h90, \h90, \hE0,
       \hF0, \h80, \hF0, \h80, \hF0,
       \hF0, \h80, \hF0, \h80, \h80 >>

\* fill_ram that leaves out the last glyph
fill_ram_short(s) ==
    [s EXCEPT !.ram = [a \in DOMAIN s.ram |->
                          IF a < FONT_BYTES - 5 THEN character_data[a + 1] ELSE s.ram[a]]]

\* State::fill_ram: ram[0..80] = character_data
fill_ram(s) ==
    [s EXCEPT !.ram = [a \in DOMAIN s.ram |->
                          IF a < FONT_BYTES THEN character_data[a + 1] ELSE s.ram[a]]]

\* State::new
StateNew ==
    fill_ram([v       |-> [r \in 0..15 |-> 0],
              i       |-> 0,
              pc      |-> PROGRAM_START,
              sp      |-> 0,
              stack   |-> [k \in 0..(STACK_SIZE - 1) |-> 0],
              dt      |-> 0,
              st      |-> 0,
              display |-> DisplayNew,
              keypad  |-> [k \in 0..15 |-> FALSE],
              ram     |-> [a \in 0..(RAM_SIZE - 1) |-> 0]])

\* State::push: [state, panic].  stack[sp] panics when sp is out of range.
push(s, value) ==
    IF s.sp \notin DOMAIN s.stack THEN [state |-> s, panic |-> TRUE]
    ELSE IF s.sp + 1 > 255 /\ debug_build
         THEN [state |-> [s EXCEPT !.stack[s.sp] = value], panic |-> TRUE]
    ELSE [state |-> [s EXCEPT !.stack[s.sp] = value, !.sp = U8(s.sp + 1)],
          panic |-> FALSE]

\* pop that reads the slot before moving sp
pop_stale(s) ==
    IF s.sp = 0 /\ debug_build THEN [state |-> s, value |-> 0, panic |-> TRUE]
    ELSE IF s.sp \notin DOMAIN s.stack \/ (s.sp + 255) % 256 \notin DOMAIN s.stack
         THEN [state |-> s, value |-> 0, panic |-> TRUE]
    ELSE [state |-> [s EXCEPT !.sp = s.sp - 1], value |-> s.stack[s.sp], panic |-> FALSE]

\* State::pop: [state, value, panic].  `sp -= 1` overflows at 0; the wrapped
\* sp of a build without overflow checks then indexes stack[255].
pop(s) ==
    IF s.sp = 0 /\ debug_build THEN [state |-> s, value |-> 0, panic |-> TRUE]
    ELSE LET sp1 == (s.sp + 255) % 256
         IN  IF sp1 \notin DOMAIN s.stack
             THEN [state |-> [s EXCEPT !.sp = sp1], value |-> 0, panic |-> TRUE]
             ELSE [state |-> [s EXCEPT !.sp = sp1], value |-> s.stack[sp1],
                   panic |-> FALSE]

----------------------------------------------------------------------------
(* instruction/mod.rs: the closures of Instruction::new.  Each takes the     *)
(* opcode and the state and gives [state, ret]: ret is "true" or "false" as  *)
(* the closure returns, "panic" when it panics.                              *)

Ret(s, r) == [state |-> s, ret |-> r]

\* `state.pc += 2`
pc_add2(s) ==
    IF s.pc + 2 > 65535 /\ debug_build THEN Ret(s, "panic")
    ELSE Ret([s EXCEPT !.pc = U16(s.pc + 2)], "true")

\* skip_if without the unconditional `state.pc += 2`
skip_if_stall(s, cond) == IF cond THEN pc_add2(s) ELSE Ret(s, "true")

\* `if cond { state.pc += 2; } state.pc += 2;`
skip_if(s, cond) ==
    IF cond
    THEN LET a == pc_add2(s) IN IF a.ret = "panic" THEN a ELSE pc_add2(a.state)
    ELSE pc_add2(s)

\* 00E0
CLS(opcode, s) == Ret([s EXCEPT !.display = reset(s.display)], "true")

\* RET that resumes at the CALL itself
RET_no_advance(opcode, s) ==
    LET p == pop(s)
    IN  IF p.panic THEN Ret(p.state, "panic")
        ELSE Ret([p.state EXCEPT !.pc = p.value], "true")

\* 00EE
RET(opcode, s) ==
    LET p == pop(s)
    IN  IF p.panic THEN Ret(p.state, "panic")
        ELSE pc_add2([p.state EXCEPT !.pc = p.value])

\* 0nnn
SYS(opcode, s) == Ret([s EXCEPT !.pc = get_addr(opcode)], "true")

\* JMP that lands one instruction after nnn
JMP_past(opcode, s) == Ret([s EXCEPT !.pc = get_nnn(opcode) + 2], "true")

\* 1nnn
JMP(opcode, s) == Ret([s EXCEPT !.pc = get_nnn(opcode)], "true")

\* CALL that pushes the address after the CALL
CALL_push_next(opcode, s) ==
    LET p == push(s, U16(s.pc + 2))
    IN  IF p.panic THEN Ret(p.state, "panic")
        ELSE Ret([p.state EXCEPT !.pc = get_addr(opcode)], "true")

\* 2nnn
CALL(opcode, s) ==
    LET p == push(s, s.pc)
    IN  IF p.panic THEN Ret(p.state, "panic")
        ELSE Ret([p.state EXCEPT !.pc = get_addr(opcode)], "true")

\* 3xkk
SE_Vx_byte(opcode, s) == skip_if(s, s.v[get_x(opcode)] = get_byte(opcode))

\* 4xkk
SNE_Vx_byte(opcode, s) == skip_if(s, s.v[get_x(opcode)] # get_byte(opcode))

\* 5xy_
SE_Vx_Vy(opcode, s) == skip_if(s, s.v[get_x(opcode)] = s.v[get_y(opcode)])

\* 6xkk
LD_Vx_byte(opcode, s) == pc_add2([s EXCEPT !.v[get_x(opcode)] = get_byte(opcode)])

\* 7xkk
ADD_Vx_byte(opcode, s) ==
    pc_add2([s EXCEPT !.v[get_x(opcode)] = U8(U16(s.v[get_x(opcode)] + get_byte(opcode)))])

\* 8xy0
LD_Vx_Vy(opcode, s) == pc_add2([s EXCEPT !.v[get_x(opcode)] = s.v[get_y(opcode)]])

\* 8xy1
OR_Vx_Vy(opcode, s) ==
    pc_add2([s EXCEPT !.v[get_x(opcode)] = BitOr(@, s.v[get_y(opcode)])])

\* 8xy2
AND_Vx_Vy(opcode, s) ==
    pc_add2([s EXCEPT !.v[get_x(opcode)] = BitAnd(@, s.v[get_y(opcode)])])

\* 8xy3
XOR_Vx_Vy(opcode, s) ==
    pc_add2([s EXCEPT !.v[get_x(opcode)] = BitXor(@, s.v[get_y(opcode)])])

\* ADD Vx,Vy whose carry test is `result >= 255`
ADD_carry_at_255(opcode, s) ==
    LET x == get_x(opcode)
        y == get_y(opcode)
        result == s.v[x] + s.v[y]
        s1 == [s EXCEPT !.v[15] = IF result >= 255 THEN 1 ELSE 0]
    IN  pc_add2([s1 EXCEPT !.v[x] = U8(result % 255)])

\* ADD Vx,Vy that keeps the low 8 bits of the sum
ADD_mod_256(opcode, s) ==
    LET x == get_x(opcode)
        y == get_y(opcode)
        result == s.v[x] + s.v[y]
        s1 == [s EXCEPT !.v[15] = IF result > 255 THEN 1 ELSE 0]
    IN  pc_add2([s1 EXCEPT !.v[x] = U8(result % 256)])

\* 8xy4
ADD_Vx_Vy(opcode, s) ==
    LET x == get_x(opcode)
        y == get_y(opcode)
        result == s.v[x] + s.v[y]
        s1 == [s EXCEPT !.v[15] = IF result > 255 THEN 1 ELSE 0]
    IN  pc_add2([s1 EXCEPT !.v[x] = U8(result % 255)])

\* `a as i8`
AsI8(a) == IF a >= 128 THEN a - 256 ELSE a

\* `result as u8` of an i8 that wrapped
I8AsU8(n) == ((n % 256) + 256) % 256

\* the `let result: i8 = a as i8 - b as i8; state.v[x] = result as u8;` of SUB/SUBN
sub_i8(s, x, a, b) ==
    LET result == AsI8(a) - AsI8(b)
    IN  IF (result > 127 \/ result < -128) /\ debug_build THEN Ret(s, "panic")
        ELSE pc_add2([s EXCEPT !.v[x] = I8AsU8(result)])

\* SUB Vx,Vy whose flag is `Vx >= Vy`
SUB_flag_ge(opcode, s) ==
    LET x == get_x(opcode)
        y == get_y(opcode)
        s1 == [s EXCEPT !.v[15] = IF s.v[x] >= s.v[y] THEN 1 ELSE 0]
    IN  sub_i8(s1, x, s1.v[x], s1.v[y])

\* 8xy5
SUB_Vx_Vy(opcode, s) ==
    LET x == get_x(opcode)
        y == get_y(opcode)
        s1 == [s EXCEPT !.v[15] = IF s.v[x] > s.v[y] THEN 1 ELSE 0]
    IN  sub_i8(s1, x, s1.v[x], s1.v[y])

\* SHR that shifts Vy into Vx
SHR_from_Vy(opcode, s) ==
    LET x == get_x(opcode)
        y == get_y(opcode)
        s1 == [s EXCEPT !.v[15] = BitAnd(s.v[y], 1)]
    IN  pc_add2([s1 EXCEPT !.v[x] = Shr(s1.v[y], 1)])

\* 8xy6
SHR_Vx(opcode, s) ==
    LET x == get_x(opcode)
        s1 == [s EXCEPT !.v[15] = BitAnd(s.v[x], 1)]
    IN  pc_add2([s1 EXCEPT !.v[x] = Shr(s1.v[x], 1)])

\* 8xy7
SUBN_Vx_Vy(opcode, s) ==
    LET x == get_x(opcode)
        y == get_y(opcode)
        s1 == [s EXCEPT !.v[15] = IF s.v[y] > s.v[x] THEN 1 ELSE 0]
    IN  sub_i8(s1, x, s1.v[y], s1.v[x])

\* 8xyE
SHL_Vx(opcode, s) ==
    LET x == get_x(opcode)
        s1 == [s EXCEPT !.v[15] = Shr(BitAnd(s.v[x], 128), 7)]
    IN  pc_add2([s1 EXCEPT !.v[x] = U8(s1.v[x] * 2)])

\* an unknown instruction that is stepped over
UNKNOWN_skip(opcode, s) == Ret([s EXCEPT !.pc = U16(s.pc + 2)], "false")

\* the four `_ =>` arms: print and return false
UNKNOWN(opcode, s) == Ret(s, "false")

\* 9xy_
SNE_Vx_Vy(opcode, s) ==
    IF s.v[get_x(opcode)] # s.v[get_y(opcode)] THEN pc_add2(s) ELSE Ret(s, "true")

\* Annn
LD_I_addr(opcode, s) == pc_add2([s EXCEPT !.i = get_addr(opcode)])

\* Bnnn
JP_V0_addr(opcode, s) == Ret([s EXCEPT !.pc = s.v[0] + get_addr(opcode)], "true")

\* Cxkk: rnd is the byte `gen_range(0, 256) as u8` drew
RND_Vx_byte(opcode, s, rnd) ==
    pc_add2([s EXCEPT !.v[get_x(opcode)] = BitAnd(U8(rnd), get_byte(opcode))])

\* `&state.ram[a..b]`
ram_slice(ram, a, b) == [k \in 1..(b - a) |-> ram[a + k - 1]]

\* Dxyn
DRW_Vx_Vy_nibble(opcode, s) ==
    LET x == get_x(opcode)
        y == get_y(opcode)
        nibble == get_nibble(opcode)
        from == s.i
        to == s.i + nibble
    IN  IF to > 65535 /\ debug_build THEN Ret(s, "panic")
        ELSE IF from > U16(to) \/ U16(to) > RAM_SIZE THEN Ret(s, "panic")
        ELSE LET d == display_sprite(s.display, s.v[x], s.v[y], ram_slice(s.ram, from, to))
             IN  IF d.panic THEN Ret([s EXCEPT !.display = d.data], "panic")
                 ELSE pc_add2([s EXCEPT !.display = d.data,
                                        !.v[15] = IF d.collision THEN 1 ELSE 0])

\* Ex9E
SKP_Vx(opcode, s) ==
    LET k == s.v[get_x(opcode)]
    IN  IF k \notin DOMAIN s.keypad THEN Ret(s, "panic")
        ELSE IF s.keypad[k] THEN pc_add2(s) ELSE Ret(s, "true")

\* ExA1
SKNP_Vx(opcode, s) ==
    LET k == s.v[get_x(opcode)]
    IN  IF k \notin DOMAIN s.keypad THEN Ret(s, "panic")
        ELSE IF ~s.keypad[k] THEN pc_add2(s) ELSE Ret(s, "true")

\* LD Vx,DT that stops the delay timer it reads
LD_Vx_DT_take(opcode, s) == pc_add2([s EXCEPT !.v[get_x(opcode)] = s.dt, !.dt = 0])

\* Fx07
LD_Vx_DT(opcode, s) == pc_add2([s EXCEPT !.v[get_x(opcode)] = s.dt])

\* `for (i, k) in state.keypad.iter().enumerate() { if *k { v[x] = i; pc += 2; } }`
RECURSIVE key_scan(_, _, _)
key_scan(r, x, k) ==
    IF r.ret = "panic" \/ k > 15 THEN r
    ELSE IF r.state.keypad[k]
         THEN key_scan(pc_add2([r.state EXCEPT !.v[x] = k]), x, k + 1)
         ELSE key_scan(r, x, k + 1)

\* LD Vx,K that steps over itself when no key is down
LD_Vx_K_skip(opcode, s) ==
    IF \E k \in DOMAIN s.keypad : s.keypad[k]
    THEN key_scan(Ret(s, "true"), get_x(opcode), 0)
    ELSE pc_add2(s)

\* Fx0A
LD_Vx_K(opcode, s) == key_scan(Ret(s, "true"), get_x(opcode), 0)

\* Fx15
LD_DT_Vx(opcode, s) == pc_add2([s EXCEPT !.dt = s.v[get_x(opcode)]])

\* Fx18
LD_ST_Vx(opcode, s) == pc_add2([s EXCEPT !.st = s.v[get_x(opcode)]])

\* Fx1E
ADD_I_Vx(opcode, s) ==
    LET sum == s.i + s.v[get_x(opcode)]
    IN  IF sum > 65535 /\ debug_build THEN Ret(s, "panic")
        ELSE pc_add2([s EXCEPT !.i = U16(sum)])

\* Fx29
LD_F_Vx(opcode, s) ==
    LET prod == s.v[get_x(opcode)] * 5
    IN  IF prod > 255 /\ debug_build THEN Ret(s, "panic")
        ELSE pc_add2([s EXCEPT !.i = U8(prod)])

\* `state.ram[(state.i + i) as usize]`: the address, or -1 when it panics
ram_index(s, off) ==
    IF s.i + off > 65535 /\ debug_build THEN -1
    ELSE IF U16(s.i + off) >= RAM_SIZE THEN -1
    ELSE U16(s.i + off)

\* `for i in (0..3).rev() { ram[i + i'] = data % 10; data /= 10; }`
RECURSIVE bcd_store(_, _, _)
bcd_store(s, data, off) ==
    IF off < 0 THEN pc_add2(s)
    ELSE IF ram_index(s, off) < 0 THEN Ret(s, "panic")
    ELSE bcd_store([s EXCEPT !.ram[ram_index(s, off)] = data % 10], data \div 10, off - 1)

\* LD B,Vx that stores the ones digit first
LD_B_ones_first(opcode, s) ==
    LET x == s.v[get_x(opcode)]
    IN  IF ram_index(s, 2) < 0 THEN Ret(s, "panic")
        ELSE pc_add2([s EXCEPT !.ram[ram_index(s, 0)] = x % 10,
                               !.ram[ram_index(s, 1)] = (x \div 10) % 10,
                               !.ram[ram_index(s, 2)] = x \div 100])

\* Fx33
LD_B_Vx(opcode, s) == bcd_store(s, s.v[get_x(opcode)], 2)

\* the store loop over `0..x`, which leaves Vx out
RECURSIVE regs_store_exclusive(_, _, _)
regs_store_exclusive(s, x, off) ==
    IF off >= x THEN pc_add2(s)
    ELSE IF ram_index(s, off) < 0 THEN Ret(s, "panic")
    ELSE regs_store_exclusive([s EXCEPT !.ram[ram_index(s, off)] = s.v[off]], x, off + 1)

\* `for i in 0..(x + 1) { ram[i + i'] = v[i']; }`
RECURSIVE regs_store(_, _, _)
regs_store(s, x, off) ==
    IF off > x THEN pc_add2(s)
    ELSE IF ram_index(s, off) < 0 THEN Ret(s, "panic")
    ELSE regs_store([s EXCEPT !.ram[ram_index(s, off)] = s.v[off]], x, off + 1)

\* Fx55
LD_I_Vx(opcode, s) == regs_store(s, get_x(opcode), 0)

\* `for i in 0..(x + 1) { v[i'] = ram[i + i']; }`
RECURSIVE regs_load(_, _, _)
regs_load(s, x, off) ==
    IF off > x THEN pc_add2(s)
    ELSE IF ram_index(s, off) < 0 THEN Ret(s, "panic")
    ELSE regs_load([s EXCEPT !.v[off] = s.ram[ram_index(s, off)]], x, off + 1)

\* Fx65
LD_Vx_I(opcode, s) == regs_load(s, get_x(opcode), 0)

----------------------------------------------------------------------------
(* Instruction::new: the match on the opcode, as the name of the arm taken *)

mnemonic(opcode) ==
    LET opcode_single_id == BitAnd(opcode, \hF000)
        opcode_double_id == BitAnd(opcode, \hF00F)
        opcode_tripple_id == BitAnd(opcode, \hF0FF)
    IN  CASE opcode_single_id = \h0000 ->
                (CASE opcode = \h00E0 -> "CLS"
                   [] opcode = \h00EE -> "RET"
                   [] OTHER -> "SYS")
          [] opcode_single_id = \h1000 -> "JMP"
          [] opcode_single_id = \h2000 -> "CALL"
          [] opcode_single_id = \h3000 -> "SE_Vx_byte"
          [] opcode_single_id = \h4000 -> "SNE_Vx_byte"
          [] opcode_single_id = \h5000 -> "SE_Vx_Vy"
          [] opcode_single_id = \h6000 -> "LD_Vx_byte"
          [] opcode_single_id = \h7000 -> "ADD_Vx_byte"
          [] opcode_single_id = \h8000 ->
                (CASE opcode_double_id = \h8000 -> "LD_Vx_Vy"
                   [] opcode_double_id = \h8001 -> "OR_Vx_Vy"
                   [] opcode_double_id = \h8002 -> "AND_Vx_Vy"
                   [] opcode_double_id = \h8003 -> "XOR_Vx_Vy"
                   [] opcode_double_id = \h8004 -> "ADD_Vx_Vy"
                   [] opcode_double_id = \h8005 -> "SUB_Vx_Vy"
                   [] opcode_double_id = \h8006 -> "SHR_Vx"
                   [] opcode_double_id = \h8007 -> "SUBN_Vx_Vy"
                   [] opcode_double_id = \h800E -> "SHL_Vx"
                   [] OTHER -> "UNKNOWN")
          [] opcode_single_id = \h9000 -> "SNE_Vx_Vy"
          [] opcode_single_id = \hA000 -> "LD_I_addr"
          [] opcode_single_id = \hB000 -> "JP_V0_addr"
          [] opcode_single_id = \hC000 -> "RND_Vx_byte"
          [] opcode_single_id = \hD000 -> "DRW_Vx_Vy_nibble"
          [] opcode_single_id = \hE000 ->
                (CASE opcode_tripple_id = \hE09E -> "SKP_Vx"
                   [] opcode_tripple_id = \hE0A1 -> "SKNP_Vx"
                   [] OTHER -> "UNKNOWN")
          [] opcode_single_id = \hF000 ->
                (CASE opcode_tripple_id = \hF007 -> "LD_Vx_DT"
                   [] opcode_tripple_id = \hF00A -> "LD_Vx_K"
                   [] opcode_tripple_id = \hF015 -> "LD_DT_Vx"
                   [] opcode_tripple_id = \hF018 -> "LD_ST_Vx"
                   [] opcode_tripple_id = \hF01E -> "ADD_I_Vx"
                   [] opcode_tripple_id = \hF029 -> "LD_F_Vx"
                   [] opcode_tripple_id = \hF033 -> "LD_B_Vx"
                   [] opcode_tripple_id = \hF055 -> "LD_I_Vx"
                   [] opcode_tripple_id = \hF065 -> "LD_Vx_I"
                   [] OTHER -> "UNKNOWN")
          [] OTHER -> "UNKNOWN"

\* Instruction::function: run the closure of the arm on (opcode, state)
function(opcode, s, rnd) ==
    LET m == mnemonic(opcode)
    IN  CASE m = "CLS" -> CLS(opcode, s)
          [] m = "RET" -> RET(opcode, s)
          [] m = "SYS" -> SYS(opcode, s)
          [] m = "JMP" -> JMP(opcode, s)
          [] m = "CALL" -> CALL(opcode, s)
          [] m = "SE_Vx_byte" -> SE_Vx_byte(opcode, s)
          [] m = "SNE_Vx_byte" -> SNE_Vx_byte(opcode, s)
          [] m = "SE_Vx_Vy" -> SE_Vx_Vy(opcode, s)
          [] m = "LD_Vx_byte" -> LD_Vx_byte(opcode, s)
          [] m = "ADD_Vx_byte" -> ADD_Vx_byte(opcode, s)
          [] m = "LD_Vx_Vy" -> LD_Vx_Vy(opcode, s)
          [] m = "OR_Vx_Vy" -> OR_Vx_Vy(opcode, s)
          [] m = "AND_Vx_Vy" -> AND_Vx_Vy(opcode, s)
          [] m = "XOR_Vx_Vy" -> XOR_Vx_Vy(opcode, s)
          [] m = "ADD_Vx_Vy" -> ADD_Vx_Vy(opcode, s)
          [] m = "SUB_Vx_Vy" -> SUB_Vx_Vy(opcode, s)
          [] m = "SHR_Vx" -> SHR_Vx(opcode, s)
          [] m = "SUBN_Vx_Vy" -> SUBN_Vx_Vy(opcode, s)
          [] m = "SHL_Vx" -> SHL_Vx(opcode, s)
          [] m = "SNE_Vx_Vy" -> SNE_Vx_Vy(opcode, s)
          [] m = "LD_I_addr" -> LD_I_addr(opcode, s)
          [] m = "JP_V0_addr" -> JP_V0_addr(opcode, s)
          [] m = "RND_Vx_byte" -> RND_Vx_byte(opcode, s, rnd)
          [] m = "DRW_Vx_Vy_nibble" -> DRW_Vx_Vy_nibble(opcode, s)
          [] m = "SKP_Vx" -> SKP_Vx(opcode, s)
          [] m = "SKNP_Vx" -> SKNP_Vx(opcode, s)
          [] m = "LD_Vx_DT" -> LD_Vx_DT(opcode, s)
          [] m = "LD_Vx_K" -> LD_Vx_K(opcode, s)
          [] m = "LD_DT_Vx" -> LD_DT_Vx(opcode, s)
          [] m = "LD_ST_Vx" -> LD_ST_Vx(opcode, s)
          [] m = "ADD_I_Vx" -> ADD_I_Vx(opcode, s)
          [] m = "LD_F_Vx" -> LD_F_Vx(opcode, s)
          [] m = "LD_B_Vx" -> LD_B_Vx(opcode, s)
          [] m = "LD_I_Vx" -> LD_I_Vx(opcode, s)
          [] m = "LD_Vx_I" -> LD_Vx_I(opcode, s)
          [] OTHER -> UNKNOWN(opcode, s)

\* The values gen_range(0, 256) draws from when the instruction is RND
RndChoices(opcode) == IF mnemonic(opcode) = "RND_Vx_byte" THEN 0..255 ELSE {0}

----------------------------------------------------------------------------
(* main.rs *)

\* load_program: `state.ram[0x200..(0x200 + bytes_read)].clone_from_slice(&buffer)`
load_program(s, buffer) ==
    [s EXCEPT !.ram = [a \in DOMAIN s.ram |->
        IF a >= PROGRAM_START /\ a < PROGRAM_START + Len(buffer)
        THEN buffer[a - PROGRAM_START + 1] ELSE s.ram[a]]]

\* execute: fetch ram[pc], ram[pc + 1], decode, run.  [state, ret, opcode]
execute(s, rnd) ==
    IF s.pc \notin DOMAIN s.ram THEN [state |-> s, ret |-> "panic", opcode |-> -1]
    ELSE IF s.pc + 1 \notin DOMAIN s.ram THEN [state |-> s, ret |-> "panic", opcode |-> -1]
    ELSE LET opcode == BitOr(U16(s.ram[s.pc] * 256), s.ram[s.pc + 1])
             r == function(opcode, s, rnd)
         IN  [state |-> r.state, ret |-> r.ret, opcode |-> opcode]

\* update_timers without the `> 0` tests
update_timers_wrap(s) == [s EXCEPT !.dt = U8(s.dt + 255), !.st = U8(s.st + 255)]

\* update_timers
update_timers(s) ==
    [s EXCEPT !.dt = IF s.dt > 0 THEN s.dt - 1 ELSE s.dt,
              !.st = IF s.st > 0 THEN s.st - 1 ELSE s.st]

----------------------------------------------------------------------------
(* Programs the loader is given (16-bit big-endian words from 0x200) *)

RECURSIVE rom_bytes(_)
rom_bytes(words) ==
    IF words = << >> THEN << >>
    ELSE <<Head(words) \div 256, Head(words) % 256>> \o rom_bytes(Tail(words))

\* LD V1,K ; LD V2,7 ; JMP 0x200
RomKeyWait == <<\hF10A, \h6207, \h1200>>

\* LD V1,5 ; 8128 (no such instruction) ; LD V1,7
RomUnknown == <<\h6105, \h8128, \h6107>>

\* Address of the k-th nested subroutine of RomCalls
SubAddr(k) == PROGRAM_START + 6 + 4 * (k - 1)

\* main: CALL F1 ; CALL F16 ; JMP self.  Fk (k < 16): CALL Fk+1 ; RET.  F16: RET.
RomCalls ==
    <<\h2000 + SubAddr(1), \h2000 + SubAddr(STACK_SIZE), \h1204>>
    \o [j \in 1..(2 * (STACK_SIZE - 1)) |->
           IF j % 2 = 1 THEN \h2000 + SubAddr((j + 1) \div 2 + 1) ELSE \h00EE]
    \o <<\h00EE>>

Roms == {RomKeyWait, RomUnknown, RomCalls}

----------------------------------------------------------------------------
(* History *)

\* prev holds a state only right after an instruction (last.kind = "exec")
NoPrev == << >>

NoCall == [pc |-> -1, sp |-> -1]

NoLast == [kind |-> "none", opcode |-> -1, ret |-> "none", ret_of |-> NoCall]

\* The CALL a RET run with the open calls cs returns from
ReturnsFrom(cs, opcode, ret) ==
    IF ret = "true" /\ opcode >= 0 /\ cs # << >>
    THEN (IF mnemonic(opcode) = "RET" THEN cs[Len(cs)] ELSE NoCall)
    ELSE NoCall

LastExec(opcode, ret, cs) ==
    [kind |-> "exec", opcode |-> opcode, ret |-> ret,
     ret_of |-> ReturnsFrom(cs, opcode, ret)]

\* The CALLs not yet returned from, after an instruction run from state s
CallsAfter(cs, opcode, s, ret) ==
    IF ret # "true" \/ opcode < 0 THEN cs
    ELSE IF mnemonic(opcode) = "CALL" THEN Append(cs, [pc |-> s.pc, sp |-> s.sp])
    ELSE IF mnemonic(opcode) = "RET" /\ cs # << >> THEN SubSeq(cs, 1, Len(cs) - 1)
    ELSE cs

----------------------------------------------------------------------------
(* main: the frame loop.  One frame is nine iterations of                  *)
(* poll_events ; if running || step { execute ; tick at i = 0 ; step = false } *)
(* then the render and the match on gui.ui_action.                         *)

Init ==
    /\ debug_build \in BOOLEAN
    /\ \E rom \in Roms : state = load_program(StateNew, rom_bytes(rom))
    /\ phase = "poll"
    /\ loop_i = 0
    /\ simmulation_running = FALSE
    /\ simmulation_step = FALSE
    /\ closed = FALSE
    /\ ui_left = MaxUi
    /\ prev = NoPrev
    /\ last = NoLast
    /\ failed = FALSE
    /\ calls = << >>
    /\ frame = [execs |-> 0, ticks |-> 0]

\* The KeyboardInput arm of poll_events: keypad[k] = is_key_pressed(input.state)
KeyEvent(s, k, pressed) == [s EXCEPT !.keypad[k] = pressed]

\* events_loop.poll_events: a key event (one that repeats the key's state
\* changes nothing).  CloseRequested only sets `closed`, which nothing reads
\* before the `while !closed` test: FrameEnd draws it there.
PollEvents ==
    /\ phase = "poll"
    /\ \E k \in 0..MaxKey, pressed \in BOOLEAN :
          state' = KeyEvent(state, k, pressed)
    /\ phase' = "exec"
    /\ prev' = NoPrev
    /\ last' = NoLast
    /\ UNCHANGED <<debug_build, loop_i, simmulation_running, simmulation_step,
                   closed, ui_left, failed, calls, frame>>

\* a frame of eight iterations
NextPhase_eight(i) == IF i + 2 < CYCLES_PER_FRAME THEN "poll" ELSE "render"

\* `for i in 0..9`: the next iteration, or the render after the ninth
NextPhase(i) == IF i + 1 < CYCLES_PER_FRAME THEN "poll" ELSE "render"

NextI(i) == IF i + 1 < CYCLES_PER_FRAME THEN i + 1 ELSE i

\* `execute(&mut state);` (its result is dropped)
Execute ==
    /\ phase = "exec"
    /\ simmulation_running \/ simmulation_step
    /\ \E rnd \in (IF state.pc + 1 \in DOMAIN state.ram
                   THEN RndChoices(state.ram[state.pc] * 256 + state.ram[state.pc + 1])
                   ELSE {0}) :
          \E r \in {execute(state, rnd)} :
              /\ state' = r.state
              /\ prev' = state
              /\ last' = LastExec(r.opcode, r.ret, calls)
              /\ phase' = IF r.ret = "panic" THEN "panicked" ELSE "timers"
              /\ failed' = (failed \/ r.ret = "false")
              /\ calls' = CallsAfter(calls, r.opcode, state, r.ret)
              /\ frame' = [frame EXCEPT !.execs = @ + 1]
    /\ UNCHANGED <<debug_build, loop_i, simmulation_running, simmulation_step,
                   closed, ui_left>>

\* UpdateTimers without `simmulation_step = false`
UpdateTimers_keep_step ==
    /\ phase = "timers"
    /\ state' = IF loop_i = 0 THEN update_timers(state) ELSE state
    /\ frame' = IF loop_i = 0 THEN [frame EXCEPT !.ticks = @ + 1] ELSE frame
    /\ phase' = NextPhase(loop_i)
    /\ loop_i' = NextI(loop_i)
    /\ prev' = NoPrev
    /\ last' = NoLast
    /\ UNCHANGED <<debug_build, simmulation_running, simmulation_step, closed,
                   ui_left, failed, calls>>

\* `if i == 0 { update_timers(&mut state); } simmulation_step = false;`
UpdateTimers ==
    /\ phase = "timers"
    /\ state' = IF loop_i = 0 THEN update_timers(state) ELSE state
    /\ frame' = IF loop_i = 0 THEN [frame EXCEPT !.ticks = @ + 1] ELSE frame
    /\ simmulation_step' = FALSE
    /\ phase' = NextPhase(loop_i)
    /\ loop_i' = NextI(loop_i)
    /\ prev' = NoPrev
    /\ last' = NoLast
    /\ UNCHANGED <<debug_build, simmulation_running, closed, ui_left, failed, calls>>

\* the `if simmulation_running || simmulation_step` not taken
SkipCycle ==
    /\ phase = "exec"
    /\ ~(simmulation_running \/ simmulation_step)
    /\ phase' = NextPhase(loop_i)
    /\ loop_i' = NextI(loop_i)
    /\ prev' = NoPrev
    /\ last' = NoLast
    /\ UNCHANGED <<state, debug_build, simmulation_running, simmulation_step,
                   closed, ui_left, failed, calls, frame>>

\* Gui::draw_gui leaves ui_action = None unless a Control button was pressed
UiActions == IF ui_left > 0 THEN {"None", "Run", "Stop", "Step"} ELSE {"None"}

\* render, `match gui.ui_action`, and the `while !closed` test
FrameEnd ==
    /\ phase = "render"
    /\ \E a \in UiActions :
          /\ simmulation_running' = CASE a = "Run" -> TRUE
                                      [] a = "Stop" -> FALSE
                                      [] a = "Step" -> FALSE
                                      [] OTHER -> simmulation_running
          /\ simmulation_step' = IF a = "Step" THEN TRUE ELSE simmulation_step
          /\ ui_left' = IF a = "None" THEN ui_left ELSE ui_left - 1
    /\ \E c \in BOOLEAN :
          /\ closed' = c
          /\ phase' = IF c THEN "exited" ELSE "poll"
    /\ loop_i' = 0
    /\ frame' = [execs |-> 0, ticks |-> 0]
    /\ prev' = NoPrev
    /\ last' = NoLast
    /\ UNCHANGED <<state, debug_build, failed, calls>>

Next == PollEvents \/ Execute \/ UpdateTimers \/ SkipCycle \/ FrameEnd

Spec == Init /\ [][Next]_vars

----------------------------------------------------------------------------
(* The frame loop on a program that starts both timers *)

\* LD V1,3 ; LD DT,V1 ; LD V2,2 ; LD ST,V2 ; JMP self
RomTimers == <<\h6103, \hF115, \h6202, \hF218, \h1208>>

InitTimers ==
    /\ debug_build \in BOOLEAN
    /\ state = load_program(StateNew, rom_bytes(RomTimers))
    /\ phase = "poll"
    /\ loop_i = 0
    /\ simmulation_running = FALSE
    /\ simmulation_step = FALSE
    /\ closed = FALSE
    /\ ui_left = MaxUi
    /\ prev = NoPrev
    /\ last = NoLast
    /\ failed = FALSE
    /\ calls = << >>
    /\ frame = [execs |-> 0, ticks |-> 0]

SpecTimers == InitTimers /\ [][Next]_vars

----------------------------------------------------------------------------
(* The instruction harness: Instruction::new(opcode).function(&mut state)  *)
(* applied once to a state a program can bring the machine to, as the unit *)
(* tests of instruction/mod.rs do.                                         *)

\* Register values V0 and V1 are given
Vals == {0, 1, \hAA, \hFF}

\* Opcodes applied: every arm of Instruction::new, some with several operands
TestOpcodes ==
    { \h00E0, \h00EE, \h0ABC, \h1ABC, \h1FFF, \hBFFF, \h2ABC,
      \h31AA, \h3F00, \h41AA, \h4F00, \h5010, \h5F00, \h5011,
      \h61AA, \h71AA,
      \h8100, \h8101, \h8102, \h8103, \h8104, \h8105, \h8106, \h8107, \h810E,
      \h8128,
      \h9010, \h9F00, \h9011, \hAAAA, \hBAA0, \hC103,
      \hD015, \hD101,
      \hE19E, \hE1A1, \hE09E, \hE0A1, \hE1FF,
      \hF107, \hF10A, \hF00A, \hF115, \hF118, \hF11E, \hF129, \hF133,
      \hF155, \hF165, \hF1FF }

\* The random bytes the harness lets RND draw
RndSample == {0, 1, 2, \h55, \hAA, \hFF}

\* The stack after 16 nested calls made from 0x200, 0x202, ...
FullStack == [k \in 0..(STACK_SIZE - 1) |-> PROGRAM_START + 2 * k]

\* The machine in one of the situations a program brings it to
Scenario(name, s) ==
    CASE name = "fresh" -> s
      [] name = "called" -> [s EXCEPT !.pc = \h00A, !.sp = 1, !.stack[0] = \h00B]
      [] name = "deep" -> [s EXCEPT !.pc = \hAAA, !.sp = STACK_SIZE, !.stack = FullStack]
      [] name = "drawn" ->
            [s EXCEPT !.pc = \hAAA, !.dt = 9, !.st = 1,
                      !.display = [s.display EXCEPT ![0][0] = 1, ![0][1] = 1,
                                                    ![1][0] = 1, ![31][63] = 1]]
      [] OTHER -> [s EXCEPT !.i = RAM_SIZE - 2]

Scenarios == {"fresh", "called", "deep", "drawn", "high_i"}

KeySets == SUBSET (0..MaxKey)

HarnessState(v0, v1, keys, name) ==
    Scenario(name, [StateNew EXCEPT !.v[0] = v0, !.v[1] = v1,
                                    !.keypad = [k \in 0..15 |-> k \in keys]])

InitInstr ==
    /\ debug_build \in BOOLEAN
    /\ \E v0 \in Vals, v1 \in Vals, keys \in KeySets, name \in Scenarios :
          /\ (name # "fresh" => keys = {})
          /\ state = HarnessState(v0, v1, keys, name)
    /\ phase = "test"
    /\ loop_i = 0
    /\ simmulation_running = FALSE
    /\ simmulation_step = FALSE
    /\ closed = FALSE
    /\ ui_left = 0
    /\ prev = NoPrev
    /\ last = NoLast
    /\ failed = FALSE
    /\ calls = << >>
    /\ frame = [execs |-> 0, ticks |-> 0]

HarnessApply ==
    /\ phase = "test"
    /\ \E opcode \in TestOpcodes :
       \E rnd \in RndChoices(opcode) \cap RndSample :
          \E r \in {function(opcode, state, rnd)} :
              /\ state' = r.state
              /\ prev' = state
              /\ last' = LastExec(opcode, r.ret, calls)
              /\ failed' = (r.ret = "false")
              /\ calls' = CallsAfter(calls, opcode, state, r.ret)
    /\ phase' = "tested"
    /\ frame' = [frame EXCEPT !.execs = @ + 1]
    /\ UNCHANGED <<debug_build, loop_i, simmulation_running, simmulation_step,
                   closed, ui_left>>

NextInstr == HarnessApply

SpecInstr == InitInstr /\ [][NextInstr]_vars

----------------------------------------------------------------------------
(* A program that draws one sprite twice: execute() runs its two DRW from  *)
(* the state its three loads have produced.                                *)

\* Sprites the programs carry as data (one byte per row)
Sprites ==
    { <<\hFF>>, <<\h01>>, <<\hFE>>, <<\h80, \h01>>,
      <<\hF0, \h90, \h90, \h90, \hF0>> }

\* Coordinates loaded in Vx and Vy
DrawXs == {0, 1, 60, 63, \hFF}

DrawYs == {0, 31, 33, \hFF}

\* Registers named by the x and y fields of the DRW
DrawRegs == {<<0, 1>>, <<15, 1>>}

\* Address of the sprite data in RomDraw
SpriteAddr == PROGRAM_START + 12

\* LD Vx,vx ; LD Vy,vy ; LD I,sprite ; DRW Vx,Vy,n ; DRW Vx,Vy,n ; JMP self ; sprite
RomDraw(x, y, vx, vy, sprite) ==
    rom_bytes(<<\h6000 + x * 256 + vx, \h6000 + y * 256 + vy, \hA000 + SpriteAddr,
                \hD000 + x * 256 + y * 16 + Len(sprite),
                \hD000 + x * 256 + y * 16 + Len(sprite),
                \h1000 + PROGRAM_START + 10>>) \o sprite

\* A framebuffer that earlier draws have left with some pixels set
DrawnDisplay == [DisplayNew EXCEPT ![0][0] = 1, ![0][7] = 1, ![1][1] = 1, ![31][63] = 1]

\* The opcode execute() fetches in state s
fetch(s) == BitOr(U16(s.ram[s.pc] * 256), s.ram[s.pc + 1])

InitDraw ==
    /\ debug_build \in BOOLEAN
    /\ \E regs \in DrawRegs, vx \in DrawXs, vy \in DrawYs, sprite \in Sprites,
          d \in {DisplayNew, DrawnDisplay} :
          state = [load_program(StateNew, RomDraw(regs[1], regs[2], vx, vy, sprite))
                      EXCEPT !.v[regs[1]] = vx, !.v[regs[2]] = vy, !.i = SpriteAddr,
                             !.pc = PROGRAM_START + 6, !.display = d]
    /\ phase = "test"
    /\ loop_i = 0
    /\ simmulation_running = TRUE
    /\ simmulation_step = FALSE
    /\ closed = FALSE
    /\ ui_left = 0
    /\ prev = NoPrev
    /\ last = NoLast
    /\ failed = FALSE
    /\ calls = << >>
    /\ frame = [execs |-> 0, ticks |-> 0]

\* execute() on the next DRW of the program
ExecuteDraw ==
    /\ phase = "test"
    /\ mnemonic(fetch(state)) = "DRW_Vx_Vy_nibble"
    /\ \E r \in {execute(state, 0)} :
          /\ state' = r.state
          /\ prev' = state
          /\ last' = LastExec(r.opcode, r.ret, calls)
          /\ failed' = (r.ret = "false")
          /\ phase' = IF r.ret = "panic" THEN "panicked" ELSE "test"
    /\ frame' = [frame EXCEPT !.execs = @ + 1]
    /\ UNCHANGED <<debug_build, loop_i, simmulation_running, simmulation_step,
                   closed, ui_left, calls>>

NextDraw == ExecuteDraw

SpecDraw == InitDraw /\ [][NextDraw]_vars

----------------------------------------------------------------------------
(* The arithmetic instructions 8xy4..8xyE applied once to a new State with *)
(* V1, V2 and VF given, as the tests of instruction/mod.rs do.              *)

\* Operand values: the ends of the u8 and i8 ranges and their neighbours
AluVals == {0, 1, 2, \h7F, \h80, \h81, \hF0, \hFF}

\* Values VF holds before the instruction
AluFlags == {0, 1, \hAA}

\* The x and y fields: distinct, equal, y = F, x = E, x = F
AluRegs == {<<1, 2>>, <<1, 1>>, <<1, 15>>, <<14, 1>>, <<15, 1>>}

\* Low nibbles of ADD, SUB, SHR, SUBN, SHL
AluOps == {\h4, \h5, \h6, \h7, \hE}

AluOpcodes == {\h8000 + regs[1] * 256 + regs[2] * 16 + op : regs \in AluRegs, op \in AluOps}

InitAlu ==
    /\ debug_build \in BOOLEAN
    /\ \E a \in AluVals, b \in AluVals, f \in AluFlags :
          state = [StateNew EXCEPT !.v[1] = a, !.v[2] = b, !.v[15] = f]
    /\ phase = "test"
    /\ loop_i = 0
    /\ simmulation_running = FALSE
    /\ simmulation_step = FALSE
    /\ closed = FALSE
    /\ ui_left = 0
    /\ prev = NoPrev
    /\ last = NoLast
    /\ failed = FALSE
    /\ calls = << >>
    /\ frame = [execs |-> 0, ticks |-> 0]

\* instruction.function(&mut state) of one arithmetic instruction
AluApply ==
    /\ phase = "test"
    /\ \E opcode \in AluOpcodes :
       \E r \in {function(opcode, state, 0)} :
          /\ state' = r.state
          /\ prev' = state
          /\ last' = LastExec(opcode, r.ret, calls)
          /\ failed' = (r.ret = "false")
    /\ phase' = "tested"
    /\ frame' = [frame EXCEPT !.execs = @ + 1]
    /\ UNCHANGED <<debug_build, loop_i, simmulation_running, simmulation_step,
                   closed, ui_left, calls>>

NextAlu == AluApply

SpecAlu == InitAlu /\ [][NextAlu]_vars

----------------------------------------------------------------------------
(* Properties *)

\* An instruction has just run (prev is the state it ran from)
Executed == last.kind = "exec" /\ last.opcode >= 0

Returned == Executed /\ last.ret = "true"

Op == IF Executed THEN mnemonic(last.opcode) ELSE "none"

X == Shr(last.opcode % 4096, 8)

Y == Shr(last.opcode % 256, 4)

KK == last.opcode % 256

NNN == last.opcode % 4096

AnyKey(s) == \E k \in DOMAIN s.keypad : s.keypad[k]

Sequential ==
    {"CLS", "LD_Vx_byte", "ADD_Vx_byte", "LD_Vx_Vy", "OR_Vx_Vy", "AND_Vx_Vy",
     "XOR_Vx_Vy", "ADD_Vx_Vy", "SUB_Vx_Vy", "SHR_Vx", "SUBN_Vx_Vy", "SHL_Vx",
     "LD_I_addr", "RND_Vx_byte", "DRW_Vx_Vy_nibble", "LD_Vx_DT", "LD_DT_Vx",
     "LD_ST_Vx", "ADD_I_Vx", "LD_F_Vx", "LD_B_Vx", "LD_I_Vx", "LD_Vx_I"}

\* C1: every instruction that is not a jump, call, return, skip or key wait
\* leaves pc at its previous value plus 2 when it has run.
C1_SequentialAdvance ==
    (Returned /\ Op \in Sequential) => state.pc = prev.pc + 2

\* C2: once an execute() has returned false, no later step of the driver
\* executes an instruction.
C2_NoCycleAfterFailure == [][failed => last'.kind # "exec"]_vars

\* The skip condition of the instruction that has just run, on the state it ran from
SkipCond ==
    CASE Op = "SE_Vx_byte" -> prev.v[X] = KK
      [] Op = "SNE_Vx_byte" -> prev.v[X] # KK
      [] Op = "SE_Vx_Vy" -> prev.v[X] = prev.v[Y]
      [] Op = "SNE_Vx_Vy" -> prev.v[X] # prev.v[Y]
      [] Op = "SKP_Vx" -> prev.keypad[prev.v[X]]
      [] Op = "SKNP_Vx" -> ~prev.keypad[prev.v[X]]
      [] OTHER -> FALSE

\* C3: SNE Vx,Vy, SKP Vx and SKNP Vx advance pc by 4 when the skip condition
\* holds and by 2 when it does not.
C3_SkipAdvance ==
    (Returned /\ Op \in {"SNE_Vx_Vy", "SKP_Vx", "SKNP_Vx"})
        => state.pc = prev.pc + (IF SkipCond THEN 4 ELSE 2)

C5_KeyLoad ==
    (Executed /\ Op = "LD_Vx_K" /\ AnyKey(prev))
        => /\ last.ret = "true"
           /\ state.v[X] \in DOMAIN prev.keypad
           /\ prev.keypad[state.v[X]]
           /\ state.pc = prev.pc + 2

\* C6: with no key pressed, LD Vx,K returns true and changes nothing, so the
\* machine stays at that pc; with a key pressed the same step leaves that pc.
C6_KeyWait ==
    (Executed /\ Op = "LD_Vx_K")
        => IF AnyKey(prev)
           THEN state.pc # prev.pc
           ELSE last.ret = "true" /\ state = prev

C6_Witness ==
    /\ Returned
    /\ Op = "LD_Vx_K"
    /\ ~AnyKey(prev)
    /\ frame.execs >= 2
    /\ state.pc = PROGRAM_START

C8_Call ==
    (Executed /\ Op = "CALL" /\ prev.sp < 16)
        => /\ last.ret = "true"
           /\ state = [prev EXCEPT !.stack[prev.sp] = prev.pc,
                                   !.sp = prev.sp + 1,
                                   !.pc = NNN]
           /\ ~pop(state).panic
           /\ pop(state).value = prev.pc

C8_Witness ==
    /\ Returned
    /\ last.opcode = \h2ABC
    /\ prev.pc = \hAAA
    /\ prev.sp = 0
    /\ state.pc = \hABC
    /\ state.stack[0] = \hAAA

\* Values pushed in the round trip of C9
PushVals == {0, \hABC, \hFFFF}

PixelErased ==
    \E r \in DOMAIN prev.display : \E c \in DOMAIN prev.display[r] :
        prev.display[r][c] = 1 /\ state.display[r][c] = 0

\* C10: DRW sets VF to 1 exactly when the blit cleared a pixel that was set;
\* drawing onto an all-zero framebuffer leaves VF = 0.
C10_Collision ==
    (Returned /\ Op = "DRW_Vx_Vy_nibble")
        => (state.v[15] = 1 <=> PixelErased)


\* The sprite bit (row k of the sprite, bit b counted from the most
\* significant) that the DRW just run lays on pixel (r, c); 0 where the sprite
\* does not reach
SpriteBitAt(r, c) ==
    IF \E k \in 0..((last.opcode % 16) - 1), b \in 0..7 :
          /\ (prev.v[Y] + k) % DISPLAY_HEIGHT = r
          /\ (prev.v[X] + b) % DISPLAY_WIDTH = c
          /\ BitAnd(Shr(128, b), prev.ram[prev.i + k]) > 0
    THEN 1 ELSE 0

\* C11: a DRW XORs each of the 8 bits of each sprite row into pixel
\* ((Vy + row) mod 32, (Vx + bit) mod 64) and leaves every other pixel as it was.
C11_BlitAllBits ==
    (Returned /\ Op = "DRW_Vx_Vy_nibble")
        => \A r \in DOMAIN prev.display : \A c \in DOMAIN prev.display[r] :
              state.display[r][c] = (prev.display[r][c] + SpriteBitAt(r, c)) % 2

\* Two steps in a row are the same DRW of the same sprite at the same place:
\* the step described by last/prev/state and the step being taken
SameDrawTwice ==
    /\ Returned
    /\ Op = "DRW_Vx_Vy_nibble"
    /\ last'.kind = "exec"
    /\ last'.ret = "true"
    /\ last'.opcode = last.opcode
    /\ state.i = prev.i
    /\ state.ram = prev.ram
    /\ state.v[X] = prev.v[X]
    /\ state.v[Y] = prev.v[Y]

C13_SecondDrawCollides ==
    [][(SameDrawTwice
          /\ \E r \in DOMAIN prev.display : \E c \in DOMAIN prev.display[r] :
                prev.display[r][c] = 0 /\ state.display[r][c] = 1)
          => state'.v[15] = 1]_vars


\* The value Vx + Vy of the operands before an ADD Vx,Vy
AddSum == prev.v[X] + prev.v[Y]

\* C14: ADD Vx,Vy with x in 0..E sets VF to 1 when the sum of the two
\* registers before the instruction exceeds 255 and to 0 otherwise, also when
\* y = x or y = F.
C14_AddCarry ==
    (Executed /\ Op = "ADD_Vx_Vy" /\ X # 15)
        => /\ last.ret = "true"
           /\ state.v[15] = IF AddSum > 255 THEN 1 ELSE 0

C14_Witness ==
    /\ Returned
    /\ last.opcode = \h81F4
    /\ prev.v[1] = \hFF
    /\ prev.v[15] = 1
    /\ state.v[15] = 1

\* C15: ADD Vx,Vy stores (Vx + Vy) mod 255 in Vx, computed from the values
\* before the instruction.
C15_AddMod255 ==
    (Executed /\ Op = "ADD_Vx_Vy")
        => /\ last.ret = "true"
           /\ state.v[X] = AddSum % 255

C15_Witness ==
    /\ Returned
    /\ last.opcode = \h8124
    /\ prev.v[1] = \hFF
    /\ prev.v[2] = \hF0
    /\ state.v[1] = \hF0

\* C16: when Vx + Vy is at most 255, ADD Vx,Vy leaves Vx equal to the exact
\* sum and VF = 0.
C16_AddExact ==
    (Executed /\ Op = "ADD_Vx_Vy" /\ X # 15 /\ AddSum <= 255)
        => /\ last.ret = "true"
           /\ state.v[X] = AddSum
           /\ state.v[15] = 0

\* Minuend and subtrahend of the SUB or SUBN just run, before the instruction
Minuend == IF Op = "SUB_Vx_Vy" THEN prev.v[X] ELSE prev.v[Y]

Subtrahend == IF Op = "SUB_Vx_Vy" THEN prev.v[Y] ELSE prev.v[X]

\* C17: SUB Vx,Vy with x in 0..E sets VF = 1 exactly when Vx > Vy, SUBN Vx,Vy
\* exactly when Vy > Vx, on the values before the instruction.
C17_SubFlag ==
    (Returned /\ Op \in {"SUB_Vx_Vy", "SUBN_Vx_Vy"} /\ X # 15)
        => state.v[15] = IF Minuend > Subtrahend THEN 1 ELSE 0

C17_Witness ==
    /\ Returned
    /\ last.opcode = \h8125
    /\ prev.v[1] = \h80
    /\ prev.v[2] = \h80
    /\ prev.v[15] = 1
    /\ state.v[15] = 0

\* C18: SUB Vx,Vy stores (Vx - Vy) mod 256 and SUBN Vx,Vy stores
\* (Vy - Vx) mod 256 in Vx, for x in 0..E and every y, and the step returns
\* normally for all operand values.
C18_SubDifference ==
    (Executed /\ Op \in {"SUB_Vx_Vy", "SUBN_Vx_Vy"} /\ X # 15)
        => /\ last.ret = "true"
           /\ state.v[X] = (Minuend - Subtrahend + 256) % 256

\* C19: SHR Vx with x in 0..E sets VF to bit 0 of Vx and Vx to Vx >> 1, SHL Vx
\* sets VF to bit 7 of Vx and Vx to (Vx << 1) mod 256; nothing else but pc
\* changes and the result does not depend on the y field.
C19_Shifts ==
    (Executed /\ Op \in {"SHR_Vx", "SHL_Vx"} /\ X # 15)
        => /\ last.ret = "true"
           /\ state = [prev EXCEPT
                 !.v = [prev.v EXCEPT
                          ![15] = IF Op = "SHR_Vx" THEN prev.v[X] % 2
                                  ELSE prev.v[X] \div 128,
                          ![X] = IF Op = "SHR_Vx" THEN prev.v[X] \div 2
                                 ELSE (prev.v[X] * 2) % 256],
                 !.pc = prev.pc + 2]

C19_Witness ==
    /\ Returned
    /\ last.opcode = \h8126
    /\ prev.v[1] = \h81
    /\ prev.v[2] = \h7F
    /\ state.v[1] = \h40
    /\ state.v[2] = \h7F
    /\ state.v[15] = 1

\* C20: a CALL with 16 addresses on the stack and a RET with an empty stack
\* return an error status and leave sp within 0..16.
C20_StackErrors ==
    (Executed /\ ((Op = "CALL" /\ prev.sp = STACK_SIZE) \/ (Op = "RET" /\ prev.sp = 0)))
        => /\ last.ret = "false"
           /\ state.sp \in 0..STACK_SIZE


\* C21: after any instruction pc is within RAM, so that ram[pc] and
\* ram[pc + 1] of the next fetch are in range.
C21_PcInRam ==
    (phase # "panicked")
        => /\ state.pc \in DOMAIN state.ram
           /\ state.pc + 1 \in DOMAIN state.ram

\* The instructions that address RAM through I
MemOps == {"DRW_Vx_Vy_nibble", "LD_B_Vx", "LD_I_Vx", "LD_Vx_I"}

\* The highest offset from I the instruction just run addresses
MemSpan ==
    CASE Op = "DRW_Vx_Vy_nibble" -> (last.opcode % 16) - 1
      [] Op = "LD_B_Vx" -> 2
      [] OTHER -> X

\* C22: an instruction that would address RAM past 0xFFF through I returns
\* an error and leaves the whole state as it was.
C22_AddressError ==
    (Executed /\ Op \in MemOps /\ prev.i + MemSpan > \hFFF)
        => /\ last.ret = "false"
           /\ state = prev

\* C23: RAM has a byte at every 12-bit address 0x000..0xFFF, and room for a
\* program of 4096 - 0x200 bytes at 0x200.
C23_RamSize ==
    /\ \A a \in 0..\hFFF : a \in DOMAIN state.ram
    /\ PROGRAM_START + (4096 - PROGRAM_START) - 1 \in DOMAIN state.ram

\* The opcode matches one of the instruction patterns of the CHIP-8 set
DefinedPattern(opcode) ==
    LET family == opcode \div 4096
        low == opcode % 16
        byte == opcode % 256
    IN  \/ family \in {0, 1, 2, 3, 4, 6, 7, 10, 11, 12, 13}
        \/ family \in {5, 9} /\ low = 0
        \/ family = 8 /\ low \in (0..7) \cup {14}
        \/ family = 14 /\ byte \in {\h9E, \hA1}
        \/ family = 15 /\ byte \in {\h07, \h0A, \h15, \h18, \h1E, \h29, \h33, \h55, \h65}

\* C24: an instruction returns false exactly when its opcode matches none of
\* the defined patterns; 5xyN and 9xyN with N # 0 are unknown.
C24_FalseIffUndefined ==
    Executed => (last.ret = "false" <=> ~DefinedPattern(last.opcode))

\* C25: an unknown instruction returns false and leaves the whole machine
\* state as it was.
C25_UnknownNoChange ==
    (Executed /\ Op = "UNKNOWN") => (last.ret = "false" /\ state = prev)

C25_Witness ==
    /\ Executed
    /\ last.opcode = \hF1FF
    /\ last.ret = "false"
    /\ prev.pc = \hAAA
    /\ prev.sp = STACK_SIZE
    /\ state = prev

\* C28: SYS nnn and JMP nnn set pc to nnn from any pc, return true and change
\* nothing else.
C28_Jumps ==
    (Executed /\ Op \in {"SYS", "JMP"})
        => /\ last.ret = "true"
           /\ state = [prev EXCEPT !.pc = NNN]

C28_Witness ==
    /\ Returned
    /\ last.opcode = \h1ABC
    /\ prev.pc = \h00A
    /\ prev.sp = 1
    /\ state.pc = \hABC
    /\ state.sp = 1

C30_Cls ==
    /\ is_clear(reset(state.display))
    /\ (Executed /\ Op = "CLS")
          => /\ last.ret = "true"
             /\ is_clear(state.display)
             /\ state.v = prev.v
             /\ state.i = prev.i
             /\ state.sp = prev.sp
             /\ state.stack = prev.stack
             /\ state.ram = prev.ram

C30_Witness ==
    /\ Returned
    /\ last.opcode = \h00E0
    /\ ~is_clear(prev.display)
    /\ prev.display[31][63] = 1
    /\ is_clear(state.display)


\* The step being taken is a timer tick
Tick == frame'.ticks = frame.ticks + 1

\* The step being taken executes an instruction that writes DT
WritesDT == last'.kind = "exec" /\ last'.opcode >= 0 /\ mnemonic(last'.opcode) = "LD_DT_Vx"

\* C26: a tick decrements dt and st by 1 when they are above 0 and leaves
\* them at 0 otherwise; dt and st stay within 0..255 through every step.
C26_TimerTick ==
    [][/\ state'.dt \in 0..255
       /\ state'.st \in 0..255
       /\ Tick => /\ state'.dt = IF state.dt > 0 THEN state.dt - 1 ELSE 0
                  /\ state'.st = IF state.st > 0 THEN state.st - 1 ELSE 0]_vars

C26_Witness ==
    /\ frame.ticks = 1
    /\ frame.execs = 1
    /\ state.v[1] = 3
    /\ state.v[2] = 2
    /\ state.dt = 0
    /\ state.st = 0

\* C27: a frame of the running simulation has executed 9 instructions and
\* ticked the timers once when it is rendered; dt changes only by that tick
\* (by 1, down to 0) unless an instruction writes DT.
C27_FrameRatio ==
    [][/\ (phase = "render" /\ simmulation_running)
             => (frame.execs = 9 /\ frame.ticks = 1)
       /\ (simmulation_running /\ ~WritesDT)
             => state'.dt = IF Tick /\ state.dt > 0 THEN state.dt - 1 ELSE state.dt]_vars

C27_Witness ==
    /\ phase = "render"
    /\ simmulation_running
    /\ frame.execs = 9
    /\ frame.ticks = 1
    /\ state.v[1] = 3
    /\ state.dt = 1


\* C31: through any draws, every framebuffer cell holds 0 or 1.
C31_PixelValues ==
    \A r \in DOMAIN state.display : \A c \in DOMAIN state.display[r] :
        state.display[r][c] \in {0, 1}

C31_Witness ==
    /\ Returned
    /\ Op = "DRW_Vx_Vy_nibble"
    /\ frame.execs = 2
    /\ prev.display[0][0] = 1
    /\ state.display[0][0] = 0
    /\ state.display[31][63] = 1

\* RAM after V0..Vx of state s are stored at s.i
StoredRam(s, x) ==
    [a \in DOMAIN s.ram |-> IF a >= s.i /\ a <= s.i + x THEN s.v[a - s.i] ELSE s.ram[a]]

\* The registers after V0..Vx of state s are loaded from s.i
LoadedRegs(s, x) ==
    [r \in DOMAIN s.v |-> IF r <= x THEN s.ram[s.i + r] ELSE s.v[r]]

\* C32: LD [I],Vx copies V0..Vx inclusive to ram[I..I+x] and LD Vx,[I] copies
\* ram[I..I+x] to V0..Vx; I, the other registers and the rest of RAM are
\* unchanged; a load after a store with the same x and I gives the stored
\* registers back.
C32_StoreLoad ==
    /\ (Returned /\ Op = "LD_I_Vx")
          => state = [prev EXCEPT !.ram = StoredRam(prev, X), !.pc = prev.pc + 2]
    /\ (Returned /\ Op = "LD_Vx_I")
          => state = [prev EXCEPT !.v = LoadedRegs(prev, X), !.pc = prev.pc + 2]
    /\ (Returned /\ Op = "LD_I_Vx")
          => LET loaded == LD_Vx_I(last.opcode, [state EXCEPT !.v = [r \in 0..15 |-> 0]])
             IN  /\ loaded.ret = "true"
                 /\ \A r \in 0..X : loaded.state.v[r] = prev.v[r]

C32_Witness ==
    /\ Returned
    /\ last.opcode = \hF155
    /\ prev.v[0] = \hAA
    /\ prev.v[1] = \hFF
    /\ prev.i = 0
    /\ state.ram[0] = \hAA
    /\ state.ram[1] = \hFF
    /\ state.ram[2] = prev.ram[2]

\* r, the result of LD B,Vx run from s, has the digits of Vx at I, I+1, I+2
\* (hundreds first) and nothing else but pc changed
BcdStored(s, r, x) ==
    /\ r.ret = "true"
    /\ \A k \in 0..2 : r.state.ram[s.i + k] \in 0..9
    /\ 100 * r.state.ram[s.i] + 10 * r.state.ram[s.i + 1] + r.state.ram[s.i + 2] = s.v[x]
    /\ r.state = [s EXCEPT !.ram[s.i] = r.state.ram[s.i],
                           !.ram[s.i + 1] = r.state.ram[s.i + 1],
                           !.ram[s.i + 2] = r.state.ram[s.i + 2],
                           !.pc = s.pc + 2]

\* C33: LD B,Vx writes the hundreds, tens and ones digits of Vx to ram[I],
\* ram[I+1], ram[I+2] and changes neither Vx, I nor any other RAM byte, for
\* every value of Vx.
C33_Bcd ==
    (Returned /\ Op = "LD_B_Vx")
        => /\ BcdStored(prev, [state |-> state, ret |-> last.ret], X)
           /\ \A d \in 0..255 :
                 \E s \in {[prev EXCEPT !.v[X] = d]} :
                    \E r \in {LD_B_Vx(last.opcode, s)} : BcdStored(s, r, X)

C33_Witness ==
    /\ Returned
    /\ last.opcode = \hF133
    /\ prev.v[1] = \hFF
    /\ state.ram[prev.i] = 2
    /\ state.ram[prev.i + 1] = 5
    /\ state.ram[prev.i + 2] = 5

\* C34: LD F,Vx sets I = Vx * 5 for every value of Vx.
C34_FontAddress ==
    (Executed /\ Op = "LD_F_Vx")
        => /\ last.ret = "true"
           /\ state.i = prev.v[X] * 5

\* C35: a new State has pc = 0x200, sp = 0, I = 0, dt = st = 0, the V
\* registers and stack slots 0, all keys released, a clear framebuffer, the
\* 80 font bytes at ram[0..79] and 0 in the rest of RAM.
C35_NewState ==
    (phase = "test")
        => /\ StateNew.pc = \h200
           /\ StateNew.sp = 0
           /\ StateNew.i = 0
           /\ StateNew.dt = 0
           /\ StateNew.st = 0
           /\ StateNew.v = [r \in 0..15 |-> 0]
           /\ StateNew.stack = [k \in 0..15 |-> 0]
           /\ StateNew.keypad = [k \in 0..15 |-> FALSE]
           /\ is_clear(StateNew.display)
           /\ DOMAIN StateNew.display = 0..31
           /\ \A r \in 0..31 : DOMAIN StateNew.display[r] = 0..63
           /\ Len(character_data) = 80
           /\ \A a \in DOMAIN StateNew.ram :
                 StateNew.ram[a] = IF a < 80 THEN character_data[a + 1] ELSE 0

C35_Witness ==
    /\ phase = "test"
    /\ state = StateNew
    /\ state.ram[0] = \hF0
    /\ state.ram[79] = \h80
    /\ state.ram[80] = 0


\* C36: SE Vx,byte, SNE Vx,byte and SE Vx,Vy leave pc unchanged when the skip
\* condition is false and advance it by 2 when it is true, as their unit
\* tests assert.
C36_TestedSkip ==
    (Returned /\ Op \in {"SE_Vx_byte", "SNE_Vx_byte", "SE_Vx_Vy"})
        => state.pc = prev.pc + (IF SkipCond THEN 2 ELSE 0)

\* The flag an 8xy4, 8xy5, 8xy6, 8xy7 or 8xyE computes from the registers
\* before the instruction
AluFlag ==
    CASE Op = "ADD_Vx_Vy" -> IF prev.v[X] + prev.v[Y] > 255 THEN 1 ELSE 0
      [] Op = "SUB_Vx_Vy" -> IF prev.v[X] > prev.v[Y] THEN 1 ELSE 0
      [] Op = "SUBN_Vx_Vy" -> IF prev.v[Y] > prev.v[X] THEN 1 ELSE 0
      [] Op = "SHR_Vx" -> prev.v[X] % 2
      [] Op = "SHL_Vx" -> prev.v[X] \div 128
      [] OTHER -> 0

\* C37: when the destination of a flag-setting instruction is VF, VF holds
\* the flag after the instruction.
C37_FlagDestination ==
    (Returned /\ X = 15
       /\ Op \in {"ADD_Vx_Vy", "SUB_Vx_Vy", "SUBN_Vx_Vy", "SHR_Vx", "SHL_Vx"})
        => state.v[15] = AluFlag

\* C38: SKP Vx and SKNP Vx return true for every value of Vx, with no
\* keypad access out of range.
C38_KeypadIndex ==
    (Executed /\ Op \in {"SKP_Vx", "SKNP_Vx"}) => last.ret = "true"

\* C39: LD DT,Vx sets dt = Vx and LD ST,Vx sets st = Vx; LD Vx,DT copies dt
\* to Vx; every other instruction leaves dt and st as they were; the timer
\* tick changes dt and st only.
C39_TimerAccess ==
    /\ (Returned /\ Op = "LD_DT_Vx")
          => state = [prev EXCEPT !.dt = prev.v[X], !.pc = prev.pc + 2]
    /\ (Returned /\ Op = "LD_ST_Vx")
          => state = [prev EXCEPT !.st = prev.v[X], !.pc = prev.pc + 2]
    /\ (Returned /\ Op = "LD_Vx_DT")
          => state = [prev EXCEPT !.v[X] = prev.dt, !.pc = prev.pc + 2]
    /\ (Executed /\ Op # "LD_DT_Vx") => state.dt = prev.dt
    /\ (Executed /\ Op # "LD_ST_Vx") => state.st = prev.st
    /\ \E ticked \in {update_timers(state)} :
          ticked = [state EXCEPT !.dt = ticked.dt, !.st = ticked.st]

C39_Witness ==
    /\ Returned
    /\ last.opcode = \hF107
    /\ prev.dt = 9
    /\ prev.st = 1
    /\ state.v[1] = 9
    /\ state.dt = 9
    /\ state.st = 1
    /\ update_timers(state).dt = 8

\* C40: with the simulation stopped, a pending step executes one
\* instruction in the first iteration of the frame, ticks the timers once and
\* is cleared; with no step pending nothing is executed and no tick occurs,
\* so a stopped frame has run one instruction and one tick, or none of either.
C40_SingleStep ==
    [][/\ simmulation_step => (~simmulation_running /\ loop_i = 0)
       /\ (simmulation_step /\ phase = "exec")
             => (frame.execs = 0 /\ frame'.execs = 1 /\ frame'.ticks = 0)
       /\ (simmulation_step /\ phase = "timers")
             => (frame'.execs = 1 /\ frame'.ticks = 1 /\ ~simmulation_step')
       /\ (~simmulation_running /\ ~simmulation_step /\ phase \in {"poll", "exec"})
             => frame' = frame
       /\ (~simmulation_running /\ phase = "render")
             => (frame.execs = frame.ticks /\ frame.execs \in {0, 1})]_vars

C40_Witness ==
    /\ phase = "render"
    /\ ~simmulation_running
    /\ ~simmulation_step
    /\ ui_left = MaxUi - 1
    /\ frame.execs = 1
    /\ frame.ticks = 1

=============================================================================
